---- MODULE Spec2Model ----
(***************************************************************************)
(* Data-quality evaluation (scripts/monitor_data_quality.py) and pipeline  *)
(* monitoring threads (scripts/monitor_pipeline.py) of the bike-share ELT  *)
(* pipeline.                                                               *)
(*                                                                         *)
(* Numbers.  Python computes the percentages in binary floating point.     *)
(* The model computes them as exact rationals over integers:               *)
(*   - a threshold 0.95 is the integer 95 (hundredths);                    *)
(*   - a value rounded with round(x, 2) is an integer count of hundredths  *)
(*     (79.4 is 7940);                                                     *)
(*   - time is in whole seconds.                                           *)
(* For the thresholds of the code (0.95, 24) the float comparisons         *)
(*   n/t*100 <= (1-0.95)*100   and   1 - n/t >= 0.95                       *)
(* agree with the exact ones for every 0 <= n <= t < 1200, and round(x, 2) *)
(* agrees with exact rounding except at exact ties, which the row counts   *)
(* of RowCounts and the nine columns of Columns never produce.             *)
(*                                                                         *)
(* A DataFrame is a bag of rows: the checks only count rows and take a     *)
(* maximum, so row order is not modelled.  The bag is a function from the  *)
(* row kinds of Rows to multiplicities.                                    *)
(***************************************************************************)
EXTENDS Integers, Sequences, FiniteSets, TLC

VARIABLES
    \* ---- data-quality monitor (DataQualityMonitor) ----
    df,             \* the table the query returns: row kind -> number of rows
    clock,          \* datetime.now(), seconds
    thresholds,     \* self.thresholds
    alert_settings, \* self.alert_settings
    q_pc,           \* "idle" | "returned" | "raised" : run_quality_check
    raised,         \* the exception run_quality_check ended with ("" if none)
    metrics,        \* the metrics dict of the last completed evaluation
    quality_score,  \* its score, hundredths of a percent
    clock_reads,    \* the datetime.now() values the checks read
    zero_divisions, \* divisions by a zero row count performed
    reports,        \* report files written: file name -> report
    q_alert,        \* what send_alert did
    q_conn,         \* [opened, closed] connection counts of the run
    q_calls,        \* calls of run_quality_check that have ended
    written,        \* json.dump calls on a report file that have completed
    prev,           \* metrics and score of the evaluation before the last one
    \* ---- pipeline monitor (PipelineMonitor) ----
    pc,             \* thread -> position
    registry,       \* self.metrics: the Prometheus gauges/counters/histogram
    locals,         \* thread -> local variables of its current cycle
    cycle_start,    \* thread -> its registry entries as they were when its cycle began
    p_alerts,       \* number of _send_alert calls made
    open_conns,     \* thread -> warehouse connections it opened and has not closed
    p_reports,      \* monitoring reports written
    cycles,         \* thread -> cycles begun (bounded)
    p_report,       \* pipeline_metrics of the report under construction
    instants,       \* registry views since the report began that agree with p_report
    naps,           \* watcher -> seconds of the time.sleep call it last entered
    \* ---- threads incrementing one counter of the registry ----
    inc_done,       \* thread -> Counter.inc calls it has made
    observed        \* the value the reader last got from _value.get()

qvars == <<df, clock, thresholds, alert_settings, q_pc, raised, metrics,
           quality_score, clock_reads, zero_divisions, reports, q_alert, q_conn,
           q_calls, written, prev>>
pvars == <<pc, registry, locals, cycle_start, p_alerts, open_conns, p_reports, cycles,
           p_report, instants, naps>>
cvars == <<inc_done, observed>>
vars == <<qvars, pvars, cvars>>

(***************************************************************************)
(* Bounds                                                                  *)
(***************************************************************************)
\* how many distinct kinds of defective rows one dataset mixes
MaxDirtyKinds == 2
\* seconds the clock may advance between two datetime.now() reads of one run
MaxDrift == 1
\* cycles the monitoring threads begin in total
MaxCycles == 2
\* threads that increment the same counter, and increments each of them makes
MaxIncrementers == 3
MaxIncrements == 3
\* calls of run_quality_check in a row
MaxRuns == 2

(***************************************************************************)
(* Values                                                                  *)
(***************************************************************************)
Null == <<>>
Some(v) == <<v>>
IsNull(x) == x = Null
Val(x) == x[1]

Hour == 3600
Day == 24 * Hour

\* df.columns: the columns the query of run_quality_check and the checks name
\* (f.* with date, the three rental counts and the join key, and the four
\* columns of dim_weather)
Columns == {"date", "total_rentals", "casual_users", "registered_users", "weather_id",
            "weather_desc", "avg_temp_celsius", "avg_humidity_percent", "avg_windspeed_kmh"}
\* df.select_dtypes(include=[np.number]).columns
NumericCols == Columns \ {"date", "weather_desc"}

\* a row with nothing wrong in it, dated at second 0
CleanRow ==
    [date |-> Some(0), total_rentals |-> Some(2), casual_users |-> Some(1),
     registered_users |-> Some(1), weather_id |-> Some(1), weather_desc |-> Some("clear"),
     avg_temp_celsius |-> Some(20), avg_humidity_percent |-> Some(60),
     avg_windspeed_kmh |-> Some(10)]

\* The kinds of rows a dataset is made of.
Rows ==
    [ clean        |-> CleanRow,
      null_desc    |-> [CleanRow EXCEPT !.weather_desc = Null],
      null_casual  |-> [CleanRow EXCEPT !.casual_users = Null],
      negative     |-> [CleanRow EXCEPT !.registered_users = Some(0 - 1), !.total_rentals = Some(0)],
      inconsistent |-> [CleanRow EXCEPT !.total_rentals = Some(3)],
      later        |-> [CleanRow EXCEPT !.date = Some(Day)],
      null_date    |-> [CleanRow EXCEPT !.date = Null] ]

Kinds == DOMAIN Rows
DirtyKinds == Kinds \ {"clean"}

RECURSIVE SumF(_, _)
SumF(f, S) ==
    IF S = {} THEN 0
    ELSE LET x == CHOOSE y \in S : TRUE IN f[x] + SumF(f, S \ {x})

\* len(df[<condition>]) : the rows of d whose kind is in K
CountRows(d, K) == SumF([k \in Kinds |-> IF k \in K THEN d[k] ELSE 0], Kinds)

\* len(df)
RowCount(d) == CountRows(d, Kinds)

\* round(num/den, 0) to the nearest integer, ties to even; den = 0 is Python's nan
RoundDiv(num, den) ==
    IF den = 0 THEN "nan"
    ELSE LET fl == num \div den
             r2 == 2 * (num - fl * den)
         IN  IF r2 > den \/ (r2 = den /\ fl % 2 = 1) THEN fl + 1 ELSE fl

(***************************************************************************)
(* DataQualityMonitor.__init__                                             *)
(***************************************************************************)
\* self.thresholds: 0.95, 0.90, 24, 0.95 (ratios in hundredths, hours)
DefaultThresholds ==
    [completeness |-> 95, accuracy |-> 90, timeliness |-> 24, consistency |-> 95]

\* os.getenv(name, '').split(','): the empty string splits into <<"">>, a list of
\* one (empty) recipient
Split(env) == IF env = "" THEN <<"">> ELSE <<env>>

\* self.alert_settings, from the environment; alert_threshold 0.90 in hundredths
AlertSettings(recipients_env, webhook_env) ==
    [email_enabled |-> TRUE,
     email_recipients |-> Split(recipients_env),
     slack_webhook |-> webhook_env,
     alert_threshold |-> 90]

\* Python truth value of a list and of a string
TruthyList(l) == Len(l) > 0
TruthyStr(x) == x # ""

(***************************************************************************)
(* The four checks                                                         *)
(***************************************************************************)
NullKinds(col) == {k \in Kinds : IsNull(Rows[k][col])}

\* a strict comparison in place of <=
NullPercentageLt(n, t, th) == t # 0 /\ n * 100 < (100 - th) * t

\* null_percentage <= (1 - threshold) * 100, with null_percentage = n/t*100;
\* n/0 is nan, and every comparison with nan is False
NullPercentageLeq(n, t, th) == t # 0 /\ n * 100 <= (100 - th) * t

check_completeness(d, cols, th) ==
    LET total_rows == RowCount(d)
    IN  [column \in cols |->
            LET null_count == CountRows(d, NullKinds(column))
            IN  [null_count |-> null_count,
                 null_percentage |-> RoundDiv(null_count * 100 * 100, total_rows),
                 is_complete |-> NullPercentageLeq(null_count, total_rows, th.completeness)]]

\* df[col] < 0 : a null (NaN) compares False
NegativeKinds(col) == {k \in Kinds : ~IsNull(Rows[k][col]) /\ Val(Rows[k][col]) < 0}
\* df['date'] > datetime.now() : a null (NaT) compares False
FutureKinds(now) == {k \in Kinds : ~IsNull(Rows[k].date) /\ Val(Rows[k].date) > now}

\* a tolerance taken from the 'accuracy' threshold in place of zero tolerance
IsAccurateWithinTolerance(th, violations, total_rows) ==
    100 * (total_rows - violations) >= th.accuracy * total_rows

\* negative_count == 0
IsAccurate(th, violations, total_rows) == violations = 0

check_accuracy(d, th, now) ==
    [col \in NumericCols \cup {"date"} |->
        IF col = "date"
        THEN LET invalid_dates == CountRows(d, FutureKinds(now))
             IN  [future_dates |-> invalid_dates,
                  is_accurate |-> IsAccurate(th, invalid_dates, RowCount(d))]
        ELSE LET negative_count == CountRows(d, NegativeKinds(col))
             IN  [negative_count |-> negative_count,
                  is_accurate |-> IsAccurate(th, negative_count, RowCount(d))]]

\* the non-null dates present in d
Dates(d) == {Val(Rows[k].date) : k \in {j \in Kinds : d[j] > 0 /\ ~IsNull(Rows[j].date)}}

\* df['date'].max() is NaT (or nan) when no row has a date: the subtraction or
\* strftime then raises
HasLatestDate(d) == Dates(d) # {}
LatestDate(d) == CHOOSE x \in Dates(d) : \A y \in Dates(d) : y <= x

\* a strict comparison in place of <=
IsTimelyStrict(delay_seconds, th) == delay_seconds < th * Hour

\* hours_delay <= threshold, hours_delay = seconds / 3600
IsTimely(delay_seconds, th) == delay_seconds <= th * Hour

check_timeliness(d, th, now) ==
    LET latest_date == LatestDate(d)
        delay == now - latest_date
    IN  [latest_date |-> latest_date \div Day,
         hours_delay |-> RoundDiv(delay * 100, Hour),
         is_timely |-> IsTimely(delay, th.timeliness)]

\* total_rentals != casual_users + registered_users : True when a term is null
Mismatch(r) ==
    \/ IsNull(r.total_rentals) \/ IsNull(r.casual_users) \/ IsNull(r.registered_users)
    \/ Val(r.total_rentals) # Val(r.casual_users) + Val(r.registered_users)
MismatchKinds == {k \in Kinds : Mismatch(Rows[k])}

\* a strict comparison in place of >=
IsConsistentStrict(inconsistent_rows, total_rows, th) ==
    100 * (total_rows - inconsistent_rows) > th * total_rows

\* (1 - inconsistent_rows/total_rows) >= threshold
IsConsistent(inconsistent_rows, total_rows, th) ==
    100 * (total_rows - inconsistent_rows) >= th * total_rows

check_consistency(d, th) ==
    LET inconsistent_rows == CountRows(d, MismatchKinds)
        total_rows == RowCount(d)
    IN  [user_counts |->
            [inconsistent_rows |-> inconsistent_rows,
             consistency_percentage |->
                 RoundDiv((total_rows - inconsistent_rows) * 100 * 100, total_rows),
             is_consistent |-> IsConsistent(inconsistent_rows, total_rows, th.consistency)]]

(***************************************************************************)
(* calculate_quality_score                                                 *)
(***************************************************************************)
\* weights that do not sum to 1
WeightsUnnormalised == [completeness |-> 30, accuracy |-> 40, timeliness |-> 20, consistency |-> 20]

\* weights 0.3, 0.3, 0.2, 0.2 in hundredths
Weights == [completeness |-> 30, accuracy |-> 30, timeliness |-> 20, consistency |-> 20]

\* every entry counted, whatever its flag
PassingAll(dim, flag) == Cardinality(DOMAIN dim)

\* sum(1 for m in dim.values() if m[flag])
Passing(dim, flag) == Cardinality({c \in DOMAIN dim : dim[c][flag]})

\* the consistency percentage (whole percent) in place of the pass rate
ConsistencyScoreByPercentage(m) ==
    <<m.consistency.user_counts.consistency_percentage \div 100, 100>>

\* the score a dimension contributes, as the fraction <<numerator, denominator>>
ConsistencyScore(m) ==
    <<Passing(m.consistency, "is_consistent"), Cardinality(DOMAIN m.consistency)>>

Scores(m) ==
    [completeness |-> <<Passing(m.completeness, "is_complete"), Cardinality(DOMAIN m.completeness)>>,
     accuracy     |-> <<Passing(m.accuracy, "is_accurate"), Cardinality(DOMAIN m.accuracy)>>,
     timeliness   |-> <<IF m.timeliness.is_timely THEN 1 ELSE 0, 1>>,
     consistency  |-> ConsistencyScore(m)]

Dimensions == {"completeness", "accuracy", "timeliness", "consistency"}

\* the product of the denominators of the scores of the dimensions in S
RECURSIVE DenProduct(_, _)
DenProduct(s, S) ==
    IF S = {} THEN 1
    ELSE LET x == CHOOSE y \in S : TRUE IN s[x][2] * DenProduct(s, S \ {x})

\* sum(score * weights[metric]) in hundredths, over the common denominator
WeightedSum(s, w) ==
    LET den == DenProduct(s, Dimensions)
    IN  <<SumF([x \in Dimensions |-> w[x] * s[x][1] * (den \div s[x][2])], Dimensions), den>>

\* round(quality_score * 100, 2), in hundredths of a percent
calculate_quality_score(m) ==
    LET q == WeightedSum(Scores(m), Weights)
    IN  RoundDiv(q[1] * 100, q[2])

(***************************************************************************)
(* send_alert and _format_issues                                           *)
(***************************************************************************)
\* _format_issues reads metric['negative_count'] of every failing accuracy
\* entry; the 'date' entry has no such key
FormatIssuesRaises(m) ==
    \E col \in DOMAIN m.accuracy :
        /\ ~m.accuracy[col].is_accurate
        /\ "negative_count" \notin DOMAIN m.accuracy[col]

\* quality_score < alert_threshold * 100
ShouldAlert(score, settings) == score < settings.alert_threshold * 100

NoAlert == [dispatched |-> FALSE, email |-> 0, slack |-> 0]

\* the channels send_alert attempts once the message is built
Dispatch(settings) ==
    [dispatched |-> TRUE,
     email |-> IF settings.email_enabled /\ TruthyList(settings.email_recipients) THEN 1 ELSE 0,
     slack |-> IF TruthyStr(settings.slack_webhook) THEN 1 ELSE 0]

(***************************************************************************)
(* run_quality_check: one action for the whole call.                       *)
(***************************************************************************)
Evaluated == q_pc = "returned" \/ (q_pc = "raised" /\ raised \in {"OSError", "KeyError"})

\* snowflake.connector.connect raises: the except clause re-raises, and the
\* finally clause then evaluates conn.close() with conn unbound
ConnectFails ==
    /\ q_pc' = "raised"
    /\ raised' = "UnboundLocalError"
    /\ q_conn' = [opened |-> 0, closed |-> 0]
    /\ UNCHANGED <<metrics, quality_score, clock_reads, zero_divisions, reports, q_alert, clock,
                   written>>

\* pd.read_sql raises
QueryFails ==
    /\ q_pc' = "raised"
    /\ raised' = "DatabaseError"
    /\ q_conn' = [opened |-> 1, closed |-> 1]
    /\ UNCHANGED <<metrics, quality_score, clock_reads, zero_divisions, reports, q_alert, clock,
                   written>>

\* check_completeness divides by len(df) once per column; check_timeliness then
\* raises because df['date'].max() is not a timestamp
TimelinessRaises ==
    /\ ~HasLatestDate(df)
    /\ q_pc' = "raised"
    /\ raised' \in {"TypeError", "ValueError"}
    /\ zero_divisions' = IF RowCount(df) = 0 THEN Cardinality(Columns) ELSE 0
    /\ clock_reads' = [accuracy |-> clock, timeliness |-> clock]
    /\ q_conn' = [opened |-> 1, closed |-> 1]
    /\ UNCHANGED <<metrics, quality_score, reports, q_alert, clock, written>>

\* a report that records the timeliness threshold of another configuration
ReportOtherThresholds(t, score, m, th) ==
    [timestamp |-> t, quality_score |-> score, metrics |-> m,
     thresholds |-> [th EXCEPT !.timeliness = 2 * th.timeliness]]

\* the report dict of run_quality_check
Report(t, score, m, th) ==
    [timestamp |-> t, quality_score |-> score, metrics |-> m, thresholds |-> th]

\* open(report_file, 'w') of quality_report_<now>.json, one name per second, and
\* json.dump: a file of that name is created or truncated
WriteReport(name, report) ==
    reports' = [f \in DOMAIN reports \cup {name} |-> IF f = name THEN report ELSE reports[f]]

\* the four checks, the score, the report file, send_alert; t is the clock when
\* check_timeliness reads it
Evaluate(t) ==
    /\ HasLatestDate(df)
    /\ \E m \in {[completeness |-> check_completeness(df, Columns, thresholds),
                  accuracy     |-> check_accuracy(df, thresholds, clock),
                  timeliness   |-> check_timeliness(df, thresholds, t),
                  consistency  |-> check_consistency(df, thresholds)]} :
       \E score \in {calculate_quality_score(m)} :
       \E alert \in {ShouldAlert(score, alert_settings)} :
       \E key_error \in {alert /\ FormatIssuesRaises(m)} :
           /\ metrics' = m
           /\ quality_score' = score
           /\ clock_reads' = [accuracy |-> clock, timeliness |-> t]
           /\ zero_divisions' = 0
           /\ clock' = t
           /\ q_conn' = [opened |-> 1, closed |-> 1]
           /\ \/ \* open(report_file, 'w') or json.dump raises
                 /\ q_pc' = "raised"
                 /\ raised' = "OSError"
                 /\ UNCHANGED <<reports, q_alert, written>>
              \/ \* the report is written, send_alert raises in _format_issues
                 /\ key_error
                 /\ WriteReport(t, Report(t, score, m, thresholds))
                 /\ written' = written + 1
                 /\ q_pc' = "raised"
                 /\ raised' = "KeyError"
                 /\ UNCHANGED q_alert
              \/ \* the report is written, send_alert returns
                 /\ ~key_error
                 /\ WriteReport(t, Report(t, score, m, thresholds))
                 /\ written' = written + 1
                 /\ q_alert' = IF alert THEN Dispatch(alert_settings) ELSE NoAlert
                 /\ q_pc' = "returned"
                 /\ UNCHANGED raised

RunQualityCheck ==
    /\ q_pc = "idle"
    /\ \/ ConnectFails
       \/ QueryFails
       \/ TimelinessRaises
       \/ \E t \in clock .. clock + MaxDrift : Evaluate(t)
    /\ q_calls' = q_calls + 1
    /\ UNCHANGED <<df, thresholds, alert_settings, prev>>
    /\ UNCHANGED <<pvars, cvars>>

(***************************************************************************)
(* Datasets and environments the evaluation is run on                      *)
(***************************************************************************)
RowCounts == {0, 1, 20, 100, 1019}
\* the row count of the tables the repeated calls are run on
RepeatRows == 20

\* numbers of defective rows of one kind, around the 5% boundaries
DirtyCounts(total) == {n \in {1, 3, total \div 20, total \div 20 + 1} : 1 <= n /\ n <= total}

DatasetOf(total, cnt) ==
    [k \in Kinds |->
        IF k \in DOMAIN cnt THEN cnt[k]
        ELSE IF k = "clean" THEN total - SumF(cnt, DOMAIN cnt)
        ELSE 0]

Datasets ==
    UNION { UNION { {DatasetOf(total, cnt) :
                        cnt \in {c \in [S -> DirtyCounts(total)] : SumF(c, S) <= total}} :
                    S \in {T \in SUBSET DirtyKinds : Cardinality(T) <= MaxDirtyKinds} } :
            total \in RowCounts }

ClockChoices == {Day - 1, Day, 30 * Hour, 2 * Day}

Environments == {"", "set"}

QInit ==
    /\ df \in Datasets
    /\ clock \in ClockChoices
    /\ thresholds = DefaultThresholds
    /\ \E e \in Environments : alert_settings = AlertSettings(e, e)
    /\ q_pc = "idle"
    /\ raised = ""
    /\ metrics = <<>>
    /\ quality_score = 0
    /\ clock_reads = <<>>
    /\ zero_divisions = 0
    /\ reports = <<>>
    /\ q_alert = NoAlert
    /\ q_conn = [opened |-> 0, closed |-> 0]
    /\ q_calls = 0
    /\ written = 0
    /\ prev = <<>>

QIdle ==
    /\ df = [k \in Kinds |-> 0]
    /\ clock = 0
    /\ thresholds = DefaultThresholds
    /\ alert_settings = AlertSettings("", "")
    /\ q_pc = "idle"
    /\ raised = ""
    /\ metrics = <<>>
    /\ quality_score = 0
    /\ clock_reads = <<>>
    /\ zero_divisions = 0
    /\ reports = <<>>
    /\ q_alert = NoAlert
    /\ q_conn = [opened |-> 0, closed |-> 0]
    /\ q_calls = 0
    /\ written = 0
    /\ prev = <<>>

(***************************************************************************)
(* PipelineMonitor: the main thread and the four daemon threads            *)
(***************************************************************************)
Watchers == {"resources", "runs", "freshness", "throughput"}
Threads == Watchers \cup {"main"}

\* self.alert_settings['thresholds']: every ceiling of a resource is 80
ResourceThreshold == 80
\* self.alert_settings['thresholds']['data_freshness']
FreshnessThreshold == 24

\* what psutil reports, percent
Usages == {ResourceThreshold, ResourceThreshold + 1}
\* hours between now and MAX(date)
FreshnessSamples == {FreshnessThreshold, FreshnessThreshold + 1}
\* COUNT(*) of fct_hourly_rentals
RecordCounts == {0, 3}
\* the DagRun rows whose start_date is within the last 24 hours
DagRuns == <<[run_id |-> 1, state |-> "success"], [run_id |-> 2, state |-> "failed"],
             [run_id |-> 3, state |-> "running"]>>

\* the registry entries each thread writes
Owned(w) ==
    CASE w = "resources"  -> {"cpu_usage", "memory_usage", "disk_usage"}
      [] w = "runs"       -> {"pipeline_success", "pipeline_failure"}
      [] w = "freshness"  -> {"data_freshness"}
      [] w = "throughput" -> {"records_processed", "pipeline_duration"}
      [] OTHER            -> {}

MetricNames == UNION {Owned(w) : w \in Watchers}

\* the process runs as long as the main thread does: the watcher threads are
\* daemon threads
ProcessAlive == pc["main"] \in {"sleep", "read", "write"}

CyclesBegun == SumF(cycles, Threads)

At(w, label) == ProcessAlive /\ pc[w] = label
Goto(w, label) == pc' = [pc EXCEPT ![w] = label]

\* the registry entries generate_monitoring_report reads, in its order
ReportFields == <<"records_processed", "pipeline_success", "pipeline_failure",
                  "data_freshness">>

\* what the four entries hold at one instant
View(reg) == [f \in {ReportFields[i] : i \in DOMAIN ReportFields} |-> reg[f]]

Agrees(view, rep) == \A f \in DOMAIN rep : view[f] = rep[f]

\* while a report is being built, remember every view the registry takes that
\* agrees with the values the report has read so far
Track ==
    instants' = IF pc["main"] = "read"
                THEN {v \in instants \cup {View(registry')} : Agrees(v, p_report)}
                ELSE instants

\* an increment computed from a value of the counter that was read earlier
IncCounterFromStaleRead(name, delta) ==
    registry' = [registry EXCEPT ![name] = observed + delta]

\* Gauge.set / Counter.inc / Histogram.observe
SetGauge(name, v) == registry' = [registry EXCEPT ![name] = v]
IncCounter(name, delta) == registry' = [registry EXCEPT ![name] = @ + delta]

\* time.sleep(...) at the end of the try block of each watcher loop
Interval(w) ==
    CASE w = "resources"  -> 60
      [] w = "runs"       -> 300
      [] w = "freshness"  -> 3600
      [] w = "throughput" -> 300

\* a sleep that doubles after a failure
RetryBackoff(w) == 2 * Interval(w)

\* time.sleep(...) in the except clause of each watcher loop
RetryInterval(w) ==
    CASE w = "resources"  -> 60
      [] w = "runs"       -> 300
      [] w = "freshness"  -> 3600
      [] w = "throughput" -> 300

\* the sleep a watcher enters when its cycle ends: "sleep" is the time.sleep of
\* the try block, "failed" the one of the except clause
Nap(w) ==
    naps' = [naps EXCEPT ![w] = IF pc'[w] = "sleep" /\ pc[w] # "sleep" THEN Interval(w)
                                ELSE IF pc'[w] = "failed" /\ pc[w] # "failed"
                                     THEN RetryInterval(w)
                                     ELSE @]

\* the except clause of a watcher loop: log the error and sleep the interval
Caught(w) == Goto(w, "failed")

\* the exception ends the main thread as well
UncaughtPropagates(w) == pc' = [pc EXCEPT ![w] = "dead", !["main"] = "raised"]

\* an exception outside every try block ends the thread that raised it
ThreadDies(w) == Goto(w, "dead")

\* threading.Thread(target=..., daemon=True).start() for the four watchers
StartThreads ==
    pc' = [t \in Threads |->
             IF t = "main" THEN "sleep"
             ELSE IF t = "runs" THEN "setup" ELSE "begin"]

\* start_monitoring up to the main loop
StartMonitoring ==
    /\ pc["main"] = "start"
    /\ StartThreads
    /\ UNCHANGED <<registry, locals, cycle_start, p_alerts, open_conns, p_reports, cycles>>
    /\ UNCHANGED <<p_report, instants>>
    /\ UNCHANGED naps
    /\ UNCHANGED <<qvars, cvars>>

\* the top of a watcher's while True loop, also after the sleep of a finished
\* or failed cycle
BeginCycle(w) ==
    /\ ProcessAlive
    /\ pc[w] \in {"begin", "sleep", "failed"}
    /\ CyclesBegun < MaxCycles
    /\ cycles' = [cycles EXCEPT ![w] = @ + 1]
    /\ cycle_start' = [cycle_start EXCEPT ![w] = [m \in Owned(w) |-> registry[m]]]
    /\ Goto(w, CASE w = "resources" -> "cpu"
                 [] w = "runs" -> "query"
                 [] OTHER -> "connect")
    /\ UNCHANGED <<registry, locals, p_alerts, open_conns, p_reports>>
    /\ UNCHANGED <<p_report, instants>>
    /\ UNCHANGED naps
    /\ UNCHANGED <<qvars, cvars>>

\* _send_alert: one call per message; a delivery failure is caught inside it
SendAlerts(n) == p_alerts' = p_alerts + n

(***************************************************************************)
(* monitor_system_resources                                                *)
(***************************************************************************)
\* psutil.cpu_percent(interval=1); self.metrics['cpu_usage'].set(cpu_percent)
ResCpu ==
    /\ At("resources", "cpu")
    /\ \/ \E v \in Usages :
            /\ locals' = [locals EXCEPT !["resources"].cpu = v]
            /\ SetGauge("cpu_usage", v)
            /\ Goto("resources", "memory")
       \/ Caught("resources") /\ UNCHANGED <<locals, registry>>
    /\ UNCHANGED <<cycle_start, p_alerts, open_conns, p_reports, cycles>>
    /\ UNCHANGED <<p_report, instants>>
    /\ Nap("resources")
    /\ UNCHANGED <<qvars, cvars>>

\* psutil.virtual_memory(); self.metrics['memory_usage'].set(memory.percent)
ResMemory ==
    /\ At("resources", "memory")
    /\ \/ \E v \in Usages :
            /\ locals' = [locals EXCEPT !["resources"].memory = v]
            /\ SetGauge("memory_usage", v)
            /\ Goto("resources", "disk")
       \/ Caught("resources") /\ UNCHANGED <<locals, registry>>
    /\ UNCHANGED <<cycle_start, p_alerts, open_conns, p_reports, cycles>>
    /\ UNCHANGED <<p_report, instants>>
    /\ Nap("resources")
    /\ UNCHANGED <<qvars, cvars>>

\* psutil.disk_usage('/'); self.metrics['disk_usage'].set(disk.percent)
ResDisk ==
    /\ At("resources", "disk")
    /\ \/ \E v \in Usages :
            /\ locals' = [locals EXCEPT !["resources"].disk = v]
            /\ SetGauge("disk_usage", v)
            /\ Goto("resources", "check")
       \/ Caught("resources") /\ UNCHANGED <<locals, registry>>
    /\ UNCHANGED <<cycle_start, p_alerts, open_conns, p_reports, cycles>>
    /\ UNCHANGED <<p_report, instants>>
    /\ Nap("resources")
    /\ UNCHANGED <<qvars, cvars>>

\* a ceiling that is itself a violation
AtOrAboveCeiling(usage, threshold) == usage >= threshold

\* usage > threshold
ExceedsCeiling(usage, threshold) == usage > threshold

\* _check_resource_thresholds, then time.sleep(60)
ResCheck ==
    /\ At("resources", "check")
    /\ SendAlerts(Cardinality({r \in {"cpu", "memory", "disk"} :
                      ExceedsCeiling(locals["resources"][r], ResourceThreshold)}))
    /\ Goto("resources", "sleep")
    /\ UNCHANGED <<registry, locals, cycle_start, open_conns, p_reports, cycles>>
    /\ UNCHANGED <<p_report, instants>>
    /\ Nap("resources")
    /\ UNCHANGED <<qvars, cvars>>

(***************************************************************************)
(* monitor_airflow_dags                                                    *)
(***************************************************************************)
\* session = Session(), before the loop and outside its try block
RunsSetup ==
    /\ At("runs", "setup")
    /\ \/ Goto("runs", "begin")
       \/ ThreadDies("runs")
    /\ UNCHANGED <<registry, locals, cycle_start, p_alerts, open_conns, p_reports, cycles>>
    /\ UNCHANGED <<p_report, instants>>
    /\ Nap("runs")
    /\ UNCHANGED <<qvars, cvars>>

\* session.query(DagRun).filter(...).all()
RunsQuery ==
    /\ At("runs", "query")
    /\ \/ /\ locals' = [locals EXCEPT !["runs"] = [recent_runs |-> DagRuns, next |-> 1]]
          /\ Goto("runs", "loop")
       \/ Caught("runs") /\ UNCHANGED locals
    /\ UNCHANGED <<registry, cycle_start, p_alerts, open_conns, p_reports, cycles>>
    /\ UNCHANGED <<p_report, instants>>
    /\ Nap("runs")
    /\ UNCHANGED <<qvars, cvars>>

\* one iteration of "for run in recent_runs", or the end of the loop and
\* time.sleep(300)
RunsLoop ==
    /\ At("runs", "loop")
    /\ LET l == locals["runs"] IN
       IF l.next > Len(l.recent_runs)
       THEN Goto("runs", "sleep") /\ UNCHANGED <<registry, locals, p_alerts>>
       ELSE /\ locals' = [locals EXCEPT !["runs"].next = @ + 1]
            /\ UNCHANGED pc
            /\ CASE l.recent_runs[l.next].state = "success" ->
                      IncCounter("pipeline_success", 1) /\ UNCHANGED p_alerts
                 [] l.recent_runs[l.next].state = "failed" ->
                      IncCounter("pipeline_failure", 1) /\ SendAlerts(1)
                 [] OTHER -> UNCHANGED <<registry, p_alerts>>
    /\ UNCHANGED <<cycle_start, open_conns, p_reports, cycles>>
    /\ Track /\ UNCHANGED p_report
    /\ Nap("runs")
    /\ UNCHANGED <<qvars, cvars>>

(***************************************************************************)
(* monitor_data_freshness                                                  *)
(***************************************************************************)
\* snowflake.connector.connect(**self.conn_params)
Connect(w) ==
    /\ At(w, "connect")
    /\ \/ /\ open_conns' = [open_conns EXCEPT ![w] = @ + 1]
          /\ Goto(w, "query")
       \/ Caught(w) /\ UNCHANGED open_conns
    /\ UNCHANGED <<registry, locals, cycle_start, p_alerts, p_reports, cycles>>
    /\ UNCHANGED <<p_report, instants>>
    /\ Nap(w)
    /\ UNCHANGED <<qvars, cvars>>

\* pd.read_sql("SELECT MAX(date) ..."): raises, or returns the one row of the
\* aggregate, which holds a timestamp or NULL (the subtraction then raises); an
\* aggregate without GROUP BY never returns an empty frame
FreshQuery ==
    /\ At("freshness", "query")
    /\ \/ Caught("freshness") /\ UNCHANGED locals
       \/ \E h \in FreshnessSamples :
            /\ locals' = [locals EXCEPT !["freshness"] = [empty |-> FALSE, hours |-> h]]
            /\ Goto("freshness", "update")
    /\ UNCHANGED <<registry, cycle_start, p_alerts, open_conns, p_reports, cycles>>
    /\ UNCHANGED <<p_report, instants>>
    /\ Nap("freshness")
    /\ UNCHANGED <<qvars, cvars>>

\* data that is stale from the threshold on
IsStaleAtThreshold(hours, threshold) == hours >= threshold

\* hours_since_update > threshold
IsStale(hours, threshold) == hours > threshold

\* the gauge, the alert, conn.close(), time.sleep(3600)
FreshUpdate ==
    /\ At("freshness", "update")
    /\ LET l == locals["freshness"] IN
       IF l.empty
       THEN UNCHANGED <<registry, p_alerts>>
       ELSE /\ SetGauge("data_freshness", l.hours)
            /\ SendAlerts(IF IsStale(l.hours, FreshnessThreshold) THEN 1 ELSE 0)
    /\ open_conns' = [open_conns EXCEPT !["freshness"] = @ - 1]
    /\ Goto("freshness", "sleep")
    /\ UNCHANGED <<locals, cycle_start, p_reports, cycles>>
    /\ Track /\ UNCHANGED p_report
    /\ Nap("freshness")
    /\ UNCHANGED <<qvars, cvars>>

(***************************************************************************)
(* monitor_pipeline_metrics                                                *)
(***************************************************************************)
\* pd.read_sql("SELECT COUNT(*), MIN(date), MAX(date) ..."): raises, or returns
\* the count and the two dates, which are NULL when no row has a date
ThroughputQuery ==
    /\ At("throughput", "query")
    /\ \/ Caught("throughput") /\ UNCHANGED locals
       \/ \E n \in RecordCounts, dated \in BOOLEAN :
            /\ n = 0 => ~dated
            /\ locals' = [locals EXCEPT !["throughput"] = [total_records |-> n, dated |-> dated]]
            /\ Goto("throughput", "inc")
    /\ UNCHANGED <<registry, cycle_start, p_alerts, open_conns, p_reports, cycles>>
    /\ UNCHANGED <<p_report, instants>>
    /\ Nap("throughput")
    /\ UNCHANGED <<qvars, cvars>>

\* self.metrics['records_processed'].inc(metrics['total_records'].iloc[0])
ThroughputInc ==
    /\ At("throughput", "inc")
    /\ IncCounter("records_processed", locals["throughput"].total_records)
    /\ Goto("throughput", "observe")
    /\ UNCHANGED <<locals, cycle_start, p_alerts, open_conns, p_reports, cycles>>
    /\ Track /\ UNCHANGED p_report
    /\ Nap("throughput")
    /\ UNCHANGED <<qvars, cvars>>

\* a cycle that ends without recording its duration
ThroughputObserveNoSample ==
    /\ At("throughput", "observe")
    /\ IF locals["throughput"].dated
       THEN /\ UNCHANGED registry
            /\ open_conns' = [open_conns EXCEPT !["throughput"] = @ - 1]
            /\ Goto("throughput", "sleep")
       ELSE Caught("throughput") /\ UNCHANGED <<registry, open_conns>>
    /\ UNCHANGED <<locals, cycle_start, p_alerts, p_reports, cycles>>
    /\ UNCHANGED <<p_report, instants>>
    /\ Nap("throughput")
    /\ UNCHANGED <<qvars, cvars>>

\* duration = (latest_date - earliest_date).total_seconds() raises on NULL dates;
\* otherwise observe(duration), conn.close(), time.sleep(300)
ThroughputObserve ==
    /\ At("throughput", "observe")
    /\ IF locals["throughput"].dated
       THEN /\ IncCounter("pipeline_duration", 1)
            /\ open_conns' = [open_conns EXCEPT !["throughput"] = @ - 1]
            /\ Goto("throughput", "sleep")
       ELSE Caught("throughput") /\ UNCHANGED <<registry, open_conns>>
    /\ UNCHANGED <<locals, cycle_start, p_alerts, p_reports, cycles>>
    /\ UNCHANGED <<p_report, instants>>
    /\ Nap("throughput")
    /\ UNCHANGED <<qvars, cvars>>

(***************************************************************************)
(* The main thread: start_monitoring's loop                                *)
(***************************************************************************)
\* time.sleep(3600); generate_monitoring_report up to the psutil reads of
\* 'system_metrics': a failing read is logged and re-raised, and
\* start_monitoring ends with it
ReportBegin ==
    /\ pc["main"] = "sleep"
    /\ CyclesBegun < MaxCycles
    /\ cycles' = [cycles EXCEPT !["main"] = @ + 1]
    /\ \/ /\ Goto("main", "read")
          /\ p_report' = <<>>
          /\ instants' = {View(registry)}
       \/ Goto("main", "raised") /\ UNCHANGED <<p_report, instants>>
    /\ UNCHANGED <<registry, locals, cycle_start, p_alerts, open_conns, p_reports>>
    /\ UNCHANGED naps
    /\ UNCHANGED <<qvars, cvars>>

\* self.metrics[f]._value.get() for the next entry of 'pipeline_metrics'
ReportRead ==
    /\ pc["main"] = "read"
    /\ LET f == ReportFields[Cardinality(DOMAIN p_report) + 1] IN
          /\ p_report' = [g \in DOMAIN p_report \cup {f} |->
                             IF g = f THEN registry[f] ELSE p_report[g]]
          /\ instants' = {v \in instants : v[f] = registry[f]}
          /\ IF Cardinality(DOMAIN p_report) + 1 = Len(ReportFields)
             THEN Goto("main", "write")
             ELSE UNCHANGED pc
    /\ UNCHANGED <<registry, locals, cycle_start, p_alerts, open_conns, p_reports, cycles>>
    /\ UNCHANGED naps
    /\ UNCHANGED <<qvars, cvars>>

\* open(report_file, 'w') and json.dump: the report is written, or the failure
\* is logged and re-raised
ReportWrite ==
    /\ pc["main"] = "write"
    /\ \/ p_reports' = p_reports + 1 /\ Goto("main", "sleep")
       \/ Goto("main", "raised") /\ UNCHANGED p_reports
    /\ p_report' = <<>>
    /\ instants' = {}
    /\ UNCHANGED <<registry, locals, cycle_start, p_alerts, open_conns, cycles>>
    /\ UNCHANGED naps
    /\ UNCHANGED <<qvars, cvars>>

\* except KeyboardInterrupt
Interrupt ==
    /\ ProcessAlive
    /\ Goto("main", "stopped")
    /\ UNCHANGED <<registry, locals, cycle_start, p_alerts, open_conns, p_reports, cycles>>
    /\ UNCHANGED <<p_report, instants>>
    /\ UNCHANGED naps
    /\ UNCHANGED <<qvars, cvars>>

MInit ==
    /\ QIdle
    /\ pc = [t \in Threads |-> IF t = "main" THEN "start" ELSE "unstarted"]
    /\ registry = [m \in MetricNames |-> 0]
    /\ locals = [resources  |-> [cpu |-> 0, memory |-> 0, disk |-> 0],
                 runs       |-> [recent_runs |-> <<>>, next |-> 1],
                 freshness  |-> [empty |-> TRUE, hours |-> 0],
                 throughput |-> [total_records |-> 0, dated |-> FALSE]]
    /\ cycle_start = [w \in Watchers |-> [m \in Owned(w) |-> 0]]
    /\ p_alerts = 0
    /\ open_conns = [w \in Watchers |-> 0]
    /\ p_reports = 0
    /\ cycles = [t \in Threads |-> 0]
    /\ p_report = <<>>
    /\ instants = {}
    /\ naps = [w \in Watchers |-> 0]
    /\ inc_done = <<>>
    /\ observed = 0

MNext ==
    \/ StartMonitoring
    \/ \E w \in Watchers : BeginCycle(w)
    \/ ResCpu \/ ResMemory \/ ResDisk \/ ResCheck
    \/ RunsSetup \/ RunsQuery \/ RunsLoop
    \/ Connect("freshness") \/ FreshQuery \/ FreshUpdate
    \/ Connect("throughput") \/ ThroughputQuery \/ ThroughputInc \/ ThroughputObserve
    \/ ReportBegin \/ ReportRead \/ ReportWrite
    \/ Interrupt

\* the monitoring process (scripts/monitor_pipeline.py run as a program)
MonitorSpec == MInit /\ [][MNext]_vars

\* the quality check (scripts/monitor_data_quality.py run as a program)
QualityInit ==
    /\ QInit
    /\ pc = [t \in Threads |-> IF t = "main" THEN "start" ELSE "unstarted"]
    /\ registry = [m \in MetricNames |-> 0]
    /\ locals = <<>>
    /\ cycle_start = <<>>
    /\ p_alerts = 0
    /\ open_conns = [w \in Watchers |-> 0]
    /\ p_reports = 0
    /\ cycles = [t \in Threads |-> 0]
    /\ p_report = <<>>
    /\ instants = {}
    /\ naps = [w \in Watchers |-> 0]
    /\ inc_done = <<>>
    /\ observed = 0

QualityNext == RunQualityCheck

QualitySpec == QualityInit /\ [][QualityNext]_vars

(***************************************************************************)
(* Counter.inc called from several threads, with a reader (the registry    *)
(* entries are prometheus_client Counters: inc adds under the value's      *)
(* lock, one step)                                                         *)
(***************************************************************************)
Incrementers == 1 .. MaxIncrementers

\* self.metrics['pipeline_success'].inc() in thread i
Increment(i) ==
    /\ inc_done[i] < MaxIncrements
    /\ IncCounter("pipeline_success", 1)
    /\ inc_done' = [inc_done EXCEPT ![i] = @ + 1]
    /\ UNCHANGED observed
    /\ UNCHANGED <<pc, locals, cycle_start, p_alerts, open_conns, p_reports, cycles,
                   p_report, instants, naps>>
    /\ UNCHANGED qvars

\* self.metrics['pipeline_success']._value.get() in the reporting thread
ReadCounter ==
    /\ observed' = registry["pipeline_success"]
    /\ UNCHANGED <<inc_done, pvars, qvars>>

CounterInit ==
    /\ QIdle
    /\ pc = [t \in Threads |-> IF t = "main" THEN "start" ELSE "unstarted"]
    /\ registry = [m \in MetricNames |-> 0]
    /\ locals = <<>>
    /\ cycle_start = <<>>
    /\ p_alerts = 0
    /\ open_conns = [w \in Watchers |-> 0]
    /\ p_reports = 0
    /\ cycles = [t \in Threads |-> 0]
    /\ p_report = <<>>
    /\ instants = {}
    /\ naps = [w \in Watchers |-> 0]
    /\ inc_done = [i \in Incrementers |-> 0]
    /\ observed = 0

CounterNext == (\E i \in Incrementers : Increment(i)) \/ ReadCounter

CounterSpec == CounterInit /\ [][CounterNext]_vars

(***************************************************************************)
(* run_quality_check called again on the same table (the scheduled job)    *)
(***************************************************************************)
\* the next call of run_quality_check begins; the report files of earlier calls
\* stay in data_quality/
CallAgain ==
    /\ q_pc \in {"returned", "raised"}
    /\ q_calls < MaxRuns
    /\ q_pc' = "idle"
    /\ raised' = ""
    /\ q_alert' = NoAlert
    /\ prev' = IF Evaluated THEN [metrics |-> metrics, quality_score |-> quality_score]
               ELSE prev
    /\ UNCHANGED <<df, clock, thresholds, alert_settings, metrics, quality_score,
                   clock_reads, zero_divisions, reports, q_conn, q_calls, written>>
    /\ UNCHANGED <<pvars, cvars>>

\* tables of RepeatRows rows with at most one kind of defective row
RepeatDatasets ==
    {d \in Datasets : /\ RowCount(d) = RepeatRows
                      /\ Cardinality({k \in DirtyKinds : d[k] > 0}) <= 1}

RepeatInit ==
    /\ QualityInit
    /\ df \in RepeatDatasets

RepeatNext == RunQualityCheck \/ CallAgain

RepeatSpec == RepeatInit /\ [][RepeatNext]_vars

(***************************************************************************)
(* Properties of the quality evaluation (QualitySpec)                      *)
(***************************************************************************)
\* C1: whenever the evaluation of a dataset yields a quality score, the score
\* lies between 0 and 100 inclusive (0 and 10000 hundredths).
C1_ScoreInRange == Evaluated => (0 <= quality_score /\ quality_score <= 10000)

C1_Witness == q_pc = "returned" /\ RowCount(df) >= 1 /\ quality_score = 10000

\* C2 (as claimed): evaluating a zero-row dataset ends with EmptyDatasetError,
\* without any division by the row count, without a score and without a report.
QueriedEmpty == q_pc # "idle" /\ q_conn.opened = 1 /\ raised # "DatabaseError" /\ RowCount(df) = 0

C2_EmptyDatasetError ==
    QueriedEmpty =>
        /\ raised = "EmptyDatasetError"
        /\ zero_divisions = 0
        /\ ~Evaluated
        /\ DOMAIN reports = {}

\* the scenario of C3: 100 rows, 3 of them inconsistent and nothing else wrong,
\* the latest record 30 hours old when check_timeliness runs
C3_Scenario ==
    /\ q_pc = "returned"
    /\ RowCount(df) = 100
    /\ df["inconsistent"] = 3
    /\ df["clean"] = 97
    /\ clock_reads.timeliness - LatestDate(df) = 30 * Hour

\* C3 (as claimed): in that scenario the score is 79.4 and an alert is dispatched.
C3_Score794 == C3_Scenario => (quality_score = 7940 /\ q_alert.dispatched)

\* C3 (amended): in that scenario the score is 80.0 (30 + 30 + 0 + 20) and an
\* alert is dispatched.
C3_Score80 == C3_Scenario => (quality_score = 8000 /\ q_alert.dispatched)

C3_Witness == C3_Scenario /\ metrics.consistency.user_counts.consistency_percentage = 9700

\* the pass count and the number of entries of a dimension of the metrics
PassCount(dim, flag) == Cardinality({c \in DOMAIN metrics[dim] : metrics[dim][c][flag]})
Entries(dim) == Cardinality(DOMAIN metrics[dim])

\* 100 * sum of weight_d * passRate_d with weights 30, 30, 20, 20 (hundredths),
\* multiplied by the three denominators
C4_SumTimesDen ==
    100 * ( 30 * PassCount("completeness", "is_complete") * Entries("accuracy") * Entries("consistency")
          + 30 * PassCount("accuracy", "is_accurate") * Entries("completeness") * Entries("consistency")
          + 20 * (IF metrics.timeliness.is_timely THEN 1 ELSE 0)
               * Entries("completeness") * Entries("accuracy") * Entries("consistency")
          + 20 * PassCount("consistency", "is_consistent") * Entries("completeness") * Entries("accuracy") )
C4_Den == Entries("completeness") * Entries("accuracy") * Entries("consistency")

\* C4 (as claimed): the score equals the weighted sum of the pass rates.
C4_ScoreIsSum == Evaluated => quality_score * C4_Den = C4_SumTimesDen

\* C4 (amended): the score equals the weighted sum of the pass rates rounded to
\* two decimal places: it differs from the sum by at most 0.005.
C4_ScoreIsRoundedSum ==
    Evaluated =>
        /\ 2 * (quality_score * C4_Den - C4_SumTimesDen) <= C4_Den
        /\ 2 * (C4_SumTimesDen - quality_score * C4_Den) <= C4_Den

C4_Witness ==
    /\ q_pc = "returned"
    /\ quality_score * C4_Den # C4_SumTimesDen
    /\ ~metrics.timeliness.is_timely
    /\ PassCount("accuracy", "is_accurate") < Entries("accuracy")

\* C5: a column whose null percentage is exactly (1 - threshold) * 100 is
\* complete, and a column with one more null row than that is not.
C5_CompletenessBoundary ==
    Evaluated =>
        \A col \in Columns :
            LET n == metrics.completeness[col].null_count
                t == RowCount(df)
            IN  /\ n * 100 = (100 - thresholds.completeness) * t
                    => metrics.completeness[col].is_complete
                /\ (n - 1) * 100 = (100 - thresholds.completeness) * t
                    => ~metrics.completeness[col].is_complete

C5_Witness ==
    /\ q_pc = "returned"
    /\ RowCount(df) = 100
    /\ metrics.completeness["weather_desc"].null_count = 5
    /\ metrics.completeness["weather_desc"].is_complete
    /\ metrics.completeness["casual_users"].null_count = 6
    /\ ~metrics.completeness["casual_users"].is_complete

\* C6 (as claimed): is_consistent is true exactly when the reported
\* consistency_percentage is at least consistency_threshold * 100.
C6_AgreesWithReported ==
    Evaluated =>
        LET u == metrics.consistency.user_counts
        IN  u.is_consistent <=> (u.consistency_percentage >= thresholds.consistency * 100)

\* C6 (amended): is_consistent is true exactly when the unrounded percentage
\* (1 - inconsistent_rows/total_rows) * 100 is at least the threshold * 100,
\* equality included.
C6_AgreesWithExact ==
    Evaluated =>
        LET u == metrics.consistency.user_counts
        IN  u.is_consistent <=>
                (100 * (RowCount(df) - u.inconsistent_rows) >= 95 * RowCount(df))

C6_Witness ==
    /\ q_pc = "returned"
    /\ RowCount(df) = 100
    /\ metrics.consistency.user_counts.inconsistent_rows = 5
    /\ metrics.consistency.user_counts.consistency_percentage = 9500
    /\ metrics.consistency.user_counts.is_consistent

\* C7: is_timely is true exactly when the time between the clock read of
\* check_timeliness and the latest date is at most 24 hours, equality included.
C7_TimelinessBoundary ==
    Evaluated =>
        (metrics.timeliness.is_timely <=>
            clock_reads.timeliness - LatestDate(df) <= 24 * 3600)

C7_Witness ==
    /\ q_pc = "returned"
    /\ clock_reads.timeliness - LatestDate(df) = 24 * 3600
    /\ metrics.timeliness.is_timely

\* C8: a numeric column is accurate exactly when no row holds a value below
\* zero in it, and the date column exactly when no row holds a date after the
\* clock read of check_accuracy, whatever the 'accuracy' threshold.
C8_ZeroTolerance ==
    Evaluated =>
        /\ \A col \in NumericCols :
              metrics.accuracy[col].is_accurate <=>
                  ~\E k \in Kinds : df[k] > 0 /\ ~IsNull(Rows[k][col]) /\ Val(Rows[k][col]) < 0
        /\ metrics.accuracy["date"].is_accurate <=>
              ~\E k \in Kinds : df[k] > 0 /\ ~IsNull(Rows[k].date)
                                /\ Val(Rows[k].date) > clock_reads.accuracy

C8_Witness ==
    /\ Evaluated
    /\ RowCount(df) = 100
    /\ df["negative"] = 1
    /\ ~metrics.accuracy["registered_users"].is_accurate
    /\ metrics.accuracy["casual_users"].is_accurate

\* run_quality_check reached its call of send_alert
SendAlertCalled == q_pc = "returned" \/ (q_pc = "raised" /\ raised = "KeyError")

\* C11 (as claimed): a dispatch (send_alert called with a score below the alert
\* ceiling) attempts each configured channel exactly once and does not raise to
\* run_quality_check.
C11_ChannelsAttemptedOnce ==
    (SendAlertCalled /\ ShouldAlert(quality_score, alert_settings)) =>
        /\ q_pc = "returned"
        /\ TruthyStr(alert_settings.slack_webhook) => q_alert.slack = 1
        /\ (\E i \in DOMAIN alert_settings.email_recipients :
               alert_settings.email_recipients[i] # "") => q_alert.email = 1

\* C18 (as claimed): run_quality_check dispatches an alert exactly when the
\* score is strictly below alert_threshold * 100.
C18_AlertExactlyBelowCeiling ==
    SendAlertCalled =>
        (q_alert.dispatched <=> quality_score < alert_settings.alert_threshold * 100)

\* C26 (as claimed): send_alert builds its message for every metrics structure
\* the checks produce and every score below the ceiling: run_quality_check
\* never ends with the KeyError of _format_issues.
C26_MessageBuilt ==
    (Evaluated /\ raised # "OSError" /\ ShouldAlert(quality_score, alert_settings))
        => raised # "KeyError" /\ q_alert.dispatched

\* C28 (as claimed): when the connection cannot be established the caller
\* sees the connection error, and a connection that was opened is closed
\* exactly once.
C28_ConnectionErrorSeen ==
    /\ (q_pc = "raised" /\ q_conn.opened = 0) => raised = "OperationalError"
    /\ (q_pc # "idle" /\ q_conn.opened = 1) => q_conn.closed = 1

\* C30 (as claimed): send_alert attempts a channel only when it is configured:
\* email only when ALERT_EMAIL_RECIPIENTS names a recipient, the webhook only
\* when SLACK_WEBHOOK_URL is set.
C30_UnconfiguredNeverAttempted ==
    /\ q_alert.email > 0 =>
          \E i \in DOMAIN alert_settings.email_recipients :
              alert_settings.email_recipients[i] # ""
    /\ q_alert.slack > 0 => alert_settings.slack_webhook # ""

(***************************************************************************)
(* Properties of the monitoring threads (MonitorSpec)                      *)
(***************************************************************************)
\* C9 (as claimed): a watcher cycle that fails has changed none of the registry
\* values: when a watcher is in its except clause, every metric it writes holds
\* the value it had when the cycle began.
C9_FailedCycleChangesNothing ==
    \A w \in Watchers :
        pc[w] = "failed" => \A m \in Owned(w) : registry[m] = cycle_start[w][m]

\* the steps a thread can take
ThreadNext(w) ==
    CASE w = "resources"  -> BeginCycle(w) \/ ResCpu \/ ResMemory \/ ResDisk \/ ResCheck
      [] w = "runs"       -> BeginCycle(w) \/ RunsSetup \/ RunsQuery \/ RunsLoop
      [] w = "freshness"  -> BeginCycle(w) \/ Connect(w) \/ FreshQuery \/ FreshUpdate
      [] w = "throughput" -> BeginCycle(w) \/ Connect(w) \/ ThroughputQuery
                             \/ ThroughputInc \/ ThroughputObserve

\* a step in which watcher w fails: it enters its except clause or ends
FailureStep(w) == pc[w] \notin {"failed", "dead"} /\ pc'[w] \in {"failed", "dead"}

\* C10: a failure inside one watcher leaves the main thread and the other three
\* watchers where they are, and a watcher that has not itself ended can always
\* take its next step while the process runs (up to the bound on cycles).
C10_FailureIsolation ==
    /\ [][\A w \in Watchers :
            FailureStep(w) =>
                /\ pc'["main"] = pc["main"]
                /\ \A v \in Watchers \ {w} : pc'[v] = pc[v]]_vars
    /\ [](\A v \in Watchers :
            (ProcessAlive /\ pc[v] # "dead" /\ CyclesBegun < MaxCycles)
                => ENABLED ThreadNext(v))

C10_Witness ==
    /\ pc["runs"] = "dead"
    /\ pc["throughput"] = "failed"
    /\ pc["resources"] = "memory"
    /\ pc["main"] = "sleep"

\* the runs of DagRuns that ended in the given state
TerminalRuns(state) == {i \in DOMAIN DagRuns : DagRuns[i].state = state}

\* C12 (as claimed): across polls each dag run moves pipeline_success or
\* pipeline_failure at most once, so neither counter exceeds the number of
\* distinct runs that ended in that state, however often the 24-hour window
\* returns them again.
C12_CountedOncePerRun ==
    /\ registry["pipeline_success"] <= Cardinality(TerminalRuns("success"))
    /\ registry["pipeline_failure"] <= Cardinality(TerminalRuns("failed"))

\* C14 (as claimed): the pipeline_metrics of a monitoring report are a copy of
\* the registry at one instant: when generate_monitoring_report has read its
\* four entries, the registry held exactly those four values together at some
\* instant since the report began.
C14_ConsistentSnapshot ==
    pc["main"] = "write" => \E v \in instants : Agrees(v, p_report)

\* C15 (as claimed): once stopping is requested (KeyboardInterrupt reaches
\* start_monitoring) every watcher leaves its loop: a watcher that is still
\* inside its loop can take a further step, so that it reaches the loop's cancellation
\* check and ends.
C15_WatchersLeaveLoops ==
    pc["main"] = "stopped" =>
        \A w \in Watchers : pc[w] \in {"unstarted", "dead"} \/ ENABLED ThreadNext(w)

\* the cadence the watchers are to keep, seconds
Cadence == [resources |-> 60, runs |-> 300, freshness |-> 3600, throughput |-> 300]

\* C21: a watcher whose cycle has ended, in the try block or in the except
\* clause, sleeps its own interval (60, 300, 3600, 300 seconds), whatever the
\* number of failures before, and then begins its next cycle (while the process
\* runs, up to the bound on cycles); no step takes a watcher out of its loop.
C21_FixedCadence ==
    /\ [](\A w \in Watchers :
            /\ pc[w] \in {"sleep", "failed"} => naps[w] = Cadence[w]
            /\ (ProcessAlive /\ pc[w] \in {"sleep", "failed"} /\ CyclesBegun < MaxCycles)
                  => ENABLED BeginCycle(w))
    /\ [][\A w \in Watchers :
            pc[w] \notin {"unstarted", "setup", "dead"} => pc'[w] # "dead"]_vars

C21_Witness ==
    /\ pc["throughput"] = "failed"
    /\ cycles["throughput"] = 2
    /\ naps["throughput"] = 300
    /\ ProcessAlive

\* C22: the step that ends a successful resource sample raises the number of
\* alert dispatches by the number of gauges among cpu, memory and disk whose
\* sampled value is strictly above 80, in every cycle alike; a step in which the
\* sample fails dispatches nothing.
C22_ResourceAlerts ==
    [][/\ (pc["resources"] = "check" /\ pc'["resources"] = "sleep") =>
             p_alerts' - p_alerts =
                 Cardinality({g \in {"cpu_usage", "memory_usage", "disk_usage"} :
                                 registry[g] > 80})
       /\ FailureStep("resources") => p_alerts' = p_alerts]_vars

C22_Witness ==
    /\ pc["resources"] = "sleep"
    /\ cycles["resources"] = 2
    /\ cycle_start["resources"] = [cpu_usage |-> 81, memory_usage |-> 80, disk_usage |-> 80]
    /\ registry["cpu_usage"] = 81
    /\ registry["memory_usage"] = 80
    /\ registry["disk_usage"] = 81
    /\ p_alerts = 3

\* C23: the step that ends a successful freshness cycle sets the data_freshness
\* gauge to the hours between the sample and MAX(date), and dispatches one alert
\* when that value is strictly above 24 and none otherwise; the alert is decided
\* on the value the gauge then holds.
C23_FreshnessAlert ==
    [][(pc["freshness"] = "update" /\ pc'["freshness"] = "sleep") =>
            /\ registry'["data_freshness"] = locals["freshness"].hours
            /\ p_alerts' - p_alerts = IF registry'["data_freshness"] > 24 THEN 1 ELSE 0]_vars

C23_Witness ==
    /\ pc["freshness"] = "sleep"
    /\ cycles["freshness"] = 2
    /\ cycle_start["freshness"]["data_freshness"] = 24
    /\ registry["data_freshness"] = 25
    /\ p_alerts = 1

\* C24: no step lowers records_processed, and the step that ends a successful
\* throughput cycle leaves the pipeline_duration histogram with exactly one
\* sample more than when the cycle began, together with the cycle's increment
\* of records_processed.
C24_CounterAndSample ==
    [][/\ registry'["records_processed"] >= registry["records_processed"]
       /\ (pc["throughput"] = "observe" /\ pc'["throughput"] = "sleep") =>
             /\ registry'["pipeline_duration"] =
                    cycle_start["throughput"]["pipeline_duration"] + 1
             /\ registry'["records_processed"] =
                    cycle_start["throughput"]["records_processed"]
                        + locals["throughput"].total_records]_vars

C24_Witness ==
    /\ pc["throughput"] = "sleep"
    /\ cycles["throughput"] = 2
    /\ registry["pipeline_duration"] = 1
    /\ registry["records_processed"] = 6

\* C25 (as claimed): records_processed counts each record of the table once:
\* it holds 0 or the number of records a poll found, never a multiple of it.
C25_CountsEachRecordOnce == registry["records_processed"] \in RecordCounts

\* C27 (as claimed): a failure while the monitoring report is generated stays
\* in that report cycle: start_monitoring never ends with it.
C27_ReportFailureContained == pc["main"] # "raised"

\* C29 (as claimed): when a cycle of the freshness or throughput watcher has
\* ended, in its try block or in its except clause, the connection it opened is
\* closed.
C29_ConnectionsClosed ==
    \A w \in {"freshness", "throughput"} :
        pc[w] \in {"sleep", "failed"} => open_conns[w] = 0

(***************************************************************************)
(* Properties of repeated evaluations (RepeatSpec)                         *)
(***************************************************************************)
\* the last two calls of run_quality_check both completed their evaluation
TwoEvaluations == Evaluated /\ DOMAIN prev # {}

\* C17 (as claimed): two evaluations of the same table under the same
\* thresholds yield the same metrics and the same score.
C17_Deterministic ==
    TwoEvaluations => metrics = prev.metrics /\ quality_score = prev.quality_score

\* the report file of the last call of run_quality_check
LastReport == reports[clock]

\* C19: the thresholds in the report of an evaluation are the thresholds its
\* four checks used (the checks, run again on the same table and clock reads
\* with the thresholds of the report, give the metrics of the report), and
\* self.thresholds never changes, within a call or from one call to the next.
C19_ReportThresholds ==
    /\ [](SendAlertCalled =>
            /\ LastReport.thresholds = thresholds
            /\ LastReport.metrics =
                 [completeness |-> check_completeness(df, Columns, LastReport.thresholds),
                  accuracy     |-> check_accuracy(df, LastReport.thresholds,
                                                  clock_reads.accuracy),
                  timeliness   |-> check_timeliness(df, LastReport.thresholds,
                                                    clock_reads.timeliness),
                  consistency  |-> check_consistency(df, LastReport.thresholds)])
    /\ [][thresholds' = thresholds]_vars

C19_Witness ==
    /\ SendAlertCalled
    /\ q_calls = 2
    /\ written = 2
    /\ LastReport.thresholds = DefaultThresholds
    /\ ~LastReport.metrics.timeliness.is_timely
    /\ LastReport.metrics.consistency.user_counts.is_consistent

\* C20 (as claimed): every evaluation that wrote its report left a file of its
\* own: the number of report files equals the number of reports written, also
\* when two calls write within the same second.
C20_OneFilePerCycle == Cardinality(DOMAIN reports) = written

====
